---- MODULE Spec2Model ----
(***************************************************************************)
(* A model of via/blocker.py: the Blocker WSGI middleware and the          *)
(* ClassifiedURL classifier it uses.                                       *)
(*                                                                         *)
(* Python strings are sequences of one-character strings.  A Python value  *)
(* that may be None is a sequence of length at most one: None is <<>> and  *)
(* a present value x is <<x>>.                                             *)
(***************************************************************************)
EXTENDS Integers, Sequences, FiniteSets, TLC

\* ------------------------------------------------------------------------
\* Bounds of the model
\* ------------------------------------------------------------------------

\* longest tail appended to a path prefix when request paths are enumerated
MaxTail == 2

\* longest reason_codes list the check backend reports
MaxReasons == 2

\* most requests followed in the repeated-request specification
MaxRequests == 3

\* ------------------------------------------------------------------------
\* Python values
\* ------------------------------------------------------------------------

None == <<>>

Some(x) == <<x>>

\* Python truthiness of an optional string: None and "" are both false
Truthy(opt) == opt # None /\ opt[1] # <<>>

LowerCase ==
    {"a", "b", "c", "d", "e", "f", "g", "h", "i", "j", "k", "l", "m",
     "n", "o", "p", "q", "r", "s", "t", "u", "v", "w", "x", "y", "z"}

Digits == {"0", "1", "2", "3", "4", "5", "6", "7", "8", "9"}

\* urlparse.scheme_chars restricted to the characters the model uses
SchemeChars == LowerCase \cup Digits \cup {"+", "-", "."}

\* The element of a one-element set.  The({e(x) : x \in {v}}) is e(v) with v
\* evaluated once, which is how the values of local variables are held below.
The(S) == CHOOSE r \in S : TRUE

\* s[m..n] in 1-based inclusive positions, clipped like a Python slice
Slice(s, m, n) ==
    IF (IF m < 1 THEN 1 ELSE m) > (IF n > Len(s) THEN Len(s) ELSE n)
    THEN <<>>
    ELSE SubSeq(s, IF m < 1 THEN 1 ELSE m, IF n > Len(s) THEN Len(s) ELSE n)

\* the least element of a non-empty set of positions, 0 for the empty set
First(positions) ==
    IF positions = {} THEN 0
    ELSE CHOOSE i \in positions : \A j \in positions : i <= j

\* str.find: the 1-based position of the first c at or after start, 0 if none
Find(s, c, start) ==
    The({First(hits) : hits \in {{i \in start..Len(s) : s[i] = c}}})

Contains(s, c) == \E i \in 1..Len(s) : s[i] = c

\* str.lstrip("/"): every leading "/" is removed
LStripSlash(s) ==
    The({IF k = 0 THEN <<>> ELSE Slice(s, k, Len(s)) :
           k \in {First({i \in 1..Len(s) : s[i] # "/"})}})

\* ------------------------------------------------------------------------
\* urlparse.urlparse (Python 2.7), as called by ClassifiedURL
\* ------------------------------------------------------------------------

HTTP == <<"h", "t", "t", "p">>

\* urlsplit: pre, the text before the first ":", is a scheme when it is "http"
\* or is made of scheme characters and rest is not a port number ("host:80")
IsScheme(pre, rest) ==
    \/ pre = HTTP
    \/ /\ \A k \in 1..Len(pre) : pre[k] \in SchemeChars
       /\ \/ rest = <<>>
          \/ \E k \in 1..Len(rest) : rest[k] \notin Digits

\* urlsplit: the scheme of url and what follows it
SplitScheme(url) ==
    The({IF i > 1 /\ IsScheme(Slice(url, 1, i - 1), Slice(url, i + 1, Len(url)))
         THEN [scheme |-> Slice(url, 1, i - 1), rest |-> Slice(url, i + 1, Len(url))]
         ELSE [scheme |-> <<>>, rest |-> url] :
           i \in {Find(url, ":", 1)}})

\* urlsplit and _splitnetloc(url, 2): the netloc after a leading "//", up to
\* the first of "/", "?", "#", and what follows it
SplitNetloc(url) ==
    IF Slice(url, 1, 2) = <<"/", "/">>
    THEN The({IF d = 0
              THEN [has |-> TRUE, netloc |-> Slice(url, 3, Len(url)), rest |-> <<>>]
              ELSE [has |-> TRUE, netloc |-> Slice(url, 3, d - 1),
                    rest |-> Slice(url, d, Len(url))] :
                d \in {First({i \in 3..Len(url) : url[i] \in {"/", "?", "#"}})}})
    ELSE [has |-> FALSE, netloc |-> <<>>, rest |-> url]

\* url.split(c, 1) when c is in url: the text before and after the first c
SplitAt(url, c) ==
    The({IF i > 0
         THEN [head |-> Slice(url, 1, i - 1), tail |-> Slice(url, i + 1, Len(url))]
         ELSE [head |-> url, tail |-> <<>>] :
           i \in {Find(url, c, 1)}})

\* the position of the last "/" of path, 1 if it has none
LastSlash(path) ==
    IF \E i \in 1..Len(path) : path[i] = "/"
    THEN CHOOSE i \in 1..Len(path) :
            path[i] = "/" /\ \A j \in i + 1..Len(path) : path[j] # "/"
    ELSE 1

\* urlparse and _splitparams: the params after the first ";" of the last path
\* segment, for the schemes of uses_params the model has ("" and "http")
SplitParams(scheme, path) ==
    IF scheme \in {<<>>, HTTP}
    THEN The({IF i > 0
              THEN [head |-> Slice(path, 1, i - 1),
                    tail |-> Slice(path, i + 1, Len(path))]
              ELSE [head |-> path, tail |-> <<>>] :
                i \in {Find(path, ";", LastSlash(path))}})
    ELSE [head |-> path, tail |-> <<>>]

\* the ParseResult of urlparse(url); raises is TRUE where urlparse raises
\* ValueError("Invalid IPv6 URL") instead of returning
ParseResult(s, n, f, q, p) ==
    [scheme |-> s.scheme, netloc |-> n.netloc, path |-> p.head,
     params |-> p.tail, query |-> q.tail, fragment |-> f.tail,
     raises |-> n.has /\ (Contains(n.netloc, "[") # Contains(n.netloc, "]"))]

ParseQuery(s, n, f, q) ==
    The({ParseResult(s, n, f, q, p) : p \in {SplitParams(s.scheme, q.head)}})

ParseFragment(s, n, f) ==
    The({ParseQuery(s, n, f, q) : q \in {SplitAt(f.head, "?")}})

ParseNetloc(s, n) ==
    The({ParseFragment(s, n, f) : f \in {SplitAt(n.rest, "#")}})

ParseScheme(s) ==
    The({ParseNetloc(s, n) : n \in {SplitNetloc(s.rest)}})

urlparse(url) ==
    The({ParseScheme(s) : s \in {SplitScheme(url)}})

\* ------------------------------------------------------------------------
\* ClassifiedURL
\* ------------------------------------------------------------------------

\* ClassifiedURL.SUB_RESOURCE_RE = ^/([a-z]{2})_/(.*)$
SUB_RESOURCE_RE(path) ==
    /\ Len(path) >= 5
    /\ path[1] = "/"
    /\ path[2] \in LowerCase
    /\ path[3] \in LowerCase
    /\ path[4] = "_"
    /\ path[5] = "/"

\* group(1) taken one character early
Group1_off_by_one(path) == Slice(path, 1, 2)

\* group(1) and group(2) of a SUB_RESOURCE_RE match
Group1(path) == Slice(path, 2, 3)

Group2(path) == Slice(path, 6, Len(path))

\* _clean_url after url.lstrip("/"): the pair (url, parsed)
Qualify(stripped, parsed) ==
    IF parsed.scheme = <<>>
    THEN The({[url |-> u, parsed |-> urlparse(u)] :
                u \in {<<"h", "t", "t", "p", ":", "/", "/">> \o stripped}})
    ELSE [url |-> stripped, parsed |-> parsed]

\* ClassifiedURL._clean_url: the pair (url, parsed); raises is TRUE where one
\* of its urlparse calls raises
_clean_url(url) ==
    The({The({The({[url |-> c.url, parsed |-> c.parsed,
                    raises |-> parsed.raises \/ c.parsed.raises] :
                     c \in {Qualify(stripped, parsed)}}) :
                parsed \in {urlparse(stripped)}}) :
           stripped \in {LStripSlash(url)}})

\* ClassifiedURL.__init__; effective_url and resource_type are optional
\* arguments (None when not passed)
ClassifiedURL(type_, raw_url, effective_url, resource_type) ==
    IF Truthy(effective_url)
    THEN The({[raw_url |-> raw_url,
               type |-> type_,
               effective_url |-> Some(c.url),
               parsed |-> Some(c.parsed),
               resource_type |->
                  IF type_ = Some("via_sub_resource")
                  THEN resource_type ELSE None] :
                c \in {_clean_url(effective_url[1])}})
    ELSE [raw_url |-> raw_url,
          type |-> type_,
          effective_url |-> None,
          parsed |-> None,
          resource_type |->
             IF type_ = Some("via_sub_resource") THEN resource_type ELSE None]

\* ClassifiedURL.classify after parsed = urlparse(raw_url)
ClassifyParsed(raw_url, parsed, via_host, assume_via) ==
    IF ~assume_via /\ Some(parsed.netloc) # via_host
    THEN ClassifiedURL(Some("3rd_party"), raw_url, None, None)
    ELSE IF parsed.path = <<"/">>
    THEN ClassifiedURL(Some("via_landing_page"), raw_url, None, None)
    ELSE IF SUB_RESOURCE_RE(parsed.path)
    THEN ClassifiedURL(Some("via_sub_resource"), raw_url,
                       Some(Group2(parsed.path)), Some(Group1(parsed.path)))
    ELSE ClassifiedURL(Some("via_page"), raw_url, Some(parsed.path), None)

\* ClassifiedURL.classify, for the inputs on which it returns
classify(raw_url, via_host, assume_via) ==
    IF ~Truthy(raw_url)
    THEN ClassifiedURL(None, raw_url, None, None)
    ELSE The({ClassifyParsed(raw_url, parsed, via_host, assume_via) :
                parsed \in {urlparse(raw_url[1])}})

\* the effective_url that classify passes to ClassifiedURL, "" when it passes none
EffectiveArgument(parsed, via_host, assume_via) ==
    IF ~assume_via /\ Some(parsed.netloc) # via_host
    THEN <<>>
    ELSE IF parsed.path = <<"/">>
    THEN <<>>
    ELSE IF SUB_RESOURCE_RE(parsed.path)
    THEN Group2(parsed.path)
    ELSE parsed.path

\* classify does not return: one of the urlparse calls it makes raises
classify_raises(raw_url, via_host, assume_via) ==
    /\ Truthy(raw_url)
    /\ The({\/ parsed.raises
            \/ The({eff # <<>> /\ _clean_url(eff).raises :
                      eff \in {EffectiveArgument(parsed, via_host, assume_via)}}) :
              parsed \in {urlparse(raw_url[1])}})

\* ------------------------------------------------------------------------
\* Blocker
\* ------------------------------------------------------------------------

\* Blocker.templates: block reason -> [template, status]
templates ==
    [r \in {"malicious", "publisher-blocked", "other"} |->
        CASE r = "malicious" ->
                [template |-> "malicious_website_warning.html.jinja2", status |-> 200]
          [] r = "publisher-blocked" ->
                [template |-> "disallow_access.html.jinja2", status |-> 451]
          [] r = "other" ->
                [template |-> "could_not_process.html.jinja2", status |-> 200]]

\* dict.get(key, default) on Blocker.templates
templates_get(key, default) ==
    IF key \in DOMAIN templates THEN templates[key] ELSE default

\* _get_urls_to_check with the referrer rule tried before the landing page rule
_get_urls_to_check_referrer_first(url, referrer) ==
    IF referrer.type \in {Some("via_page"), Some("via_sub_resource")}
    THEN <<None, Some(url), "sub_resource_check">>
    ELSE IF url.type = Some("via_landing_page")
    THEN <<None, None, "landing_page">>
    ELSE <<Some(url), None, "page_to_check">>

\* _get_urls_to_check whose referrer rule leaves out via_page referrers
_get_urls_to_check_sub_resource_only(url, referrer) ==
    IF url.type = Some("via_landing_page")
    THEN <<None, None, "landing_page">>
    ELSE IF referrer.type \in {Some("via_sub_resource")}
    THEN <<None, Some(url), "sub_resource_check">>
    ELSE <<Some(url), None, "page_to_check">>

\* _get_urls_to_check whose referrer rule also trusts the Via landing page
_get_urls_to_check_landing_trusted(url, referrer) ==
    IF url.type = Some("via_landing_page")
    THEN <<None, None, "landing_page">>
    ELSE IF referrer.type \in {Some("via_page"), Some("via_sub_resource"),
                               Some("via_landing_page")}
    THEN <<None, Some(url), "sub_resource_check">>
    ELSE <<Some(url), None, "page_to_check">>

\* Blocker._get_urls_to_check: <<full_check, partial_check, rule_type>>;
\* url and referrer are ClassifiedURL records
_get_urls_to_check(url, referrer) ==
    IF url.type = Some("via_landing_page")
    THEN <<None, None, "landing_page">>
    ELSE IF referrer.type \in {Some("via_page"), Some("via_sub_resource")}
    THEN <<None, Some(url), "sub_resource_check">>
    ELSE <<Some(url), None, "page_to_check">>

\* the outcome of a call: a returned value or a raised exception
Returns(value) == [value |-> value, raises |-> None]

Raises(exc) == [value |-> None, raises |-> Some(exc)]

\* the ways a call of the check backend fails
Failures == {"network_error", "malformed_response", "timeout"}

\* CheckmateClient.check_url, given what the backend does on this call
\* (answer): it returns None (no hit), returns a hit object carrying
\* reason_codes, or fails; every failure reaches the caller as a
\* CheckmateException.
check_url(url, allow_all, answer) ==
    IF answer.kind \in Failures
    THEN Raises("CheckmateException")
    ELSE IF answer.kind = "hit"
    THEN Returns(Some([reason_codes |-> answer.reason_codes]))
    ELSE Returns(None)

\* _check_url without its except clause
_check_url_uncaught(url, allow_all, answer) == check_url(url, allow_all, answer)

\* Blocker._check_url, given what the backend does on this call
_check_url(url, allow_all, answer) ==
    LET res == check_url(url, allow_all, answer)
    IN  IF res.raises = Some("CheckmateException")
        THEN Returns(None)
        ELSE res

\* _render_block_template looking up the last reason code instead of the first
_render_block_template_last_reason(hits, classified_url) ==
    IF hits.reason_codes = <<>>
    THEN Raises("IndexError")
    ELSE LET entry == templates_get(hits.reason_codes[Len(hits.reason_codes)],
                                    templates["other"])
         IN  IF classified_url.parsed = None
             THEN Raises("AttributeError")
             ELSE Returns(Some(
                    [template |-> entry.template,
                     url_to_annotate |-> classified_url.effective_url,
                     domain_to_annotate |-> classified_url.parsed[1].netloc,
                     status |-> entry.status,
                     mimetype |-> "text/html"]))

\* Blocker._render_block_template; hits is the object check_url returned
_render_block_template(hits, classified_url) ==
    IF hits.reason_codes = <<>>
    THEN Raises("IndexError")
    ELSE LET entry == templates_get(hits.reason_codes[1], templates["other"])
         IN  IF classified_url.parsed = None
             THEN Raises("AttributeError")
             ELSE Returns(Some(
                    [template |-> entry.template,
                     url_to_annotate |-> classified_url.effective_url,
                     domain_to_annotate |-> classified_url.parsed[1].netloc,
                     status |-> entry.status,
                     mimetype |-> "text/html"]))

\* ------------------------------------------------------------------------
\* The requests and backend answers the model enumerates
\* ------------------------------------------------------------------------

Chars == {"/", ":", "a", "1", "["}

\* every string over Chars of length at most n
RECURSIVE Strings(_)
Strings(n) ==
    IF n = 0 THEN {<<>>}
    ELSE LET shorter == Strings(n - 1)
         IN  shorter \cup {Append(s, c) : s \in {t \in shorter : Len(t) = n - 1}, c \in Chars}

\* the beginnings of request paths: none, a bare "/", a proxied URL with a
\* scheme, sub-resource prefixes with a good and a bad tag
PathPrefixes ==
    {<<>>,
     <<"/">>,
     <<"/", "a", ":">>,
     <<"/", "a", ":", "/", "/">>,
     <<"/", "a", "a", "_", "/">>,
     <<"/", "a", "1", "_", "/">>,
     <<"/", "a", "a", "_", "/", "a", ":">>,
     <<"/", "a", "a", "_", "/", "a", ":", "/", "/">>}

\* PATH_INFO values
Paths == {p \o t : p \in PathPrefixes, t \in Strings(MaxTail)}

\* HTTP_HOST of the proxy
VIA_HOST == <<"v">>

\* the origin of Via's own pages
VIA_ORIGIN == <<"a", ":", "/", "/", "v">>

THIRD_PARTY == <<"a", ":", "/", "/", "t", "/", "a">>

RefererPaths ==
    {<<>>,
     <<"/">>,
     <<"/", "a">>,
     <<"/", "a", "a", "_", "/", "a">>,
     <<"/", "a", "a", "_", "/">>,
     <<"/", "a", "1", "_", "/", "a">>}

\* HTTP_REFERER values: absent, empty, a third party's URL or one of Via's own
Referers ==
    {None, Some(<<>>), Some(THIRD_PARTY)}
    \cup {Some(VIA_ORIGIN \o p) : p \in RefererPaths}

Environs ==
    [PATH_INFO : Paths, HTTP_REFERER : Referers, HTTP_HOST : {Some(VIA_HOST)}]

Reasons == {"malicious", "publisher-blocked", "other", "anything_else"}

RECURSIVE ReasonLists(_)
ReasonLists(n) ==
    IF n = 0 THEN {<<>>}
    ELSE LET shorter == ReasonLists(n - 1)
         IN  shorter \cup {Append(s, r) : s \in {t \in shorter : Len(t) = n - 1}, r \in Reasons}

\* what the backend can do on one call
Answers ==
    [kind : {"no_hit"} \cup Failures, reason_codes : {<<>>}]
    \cup [kind : {"hit"}, reason_codes : ReasonLists(MaxReasons)]

\* the placeholder answer of a check that is not requested
Unasked == [kind |-> "unasked", reason_codes |-> <<>>]

\* ------------------------------------------------------------------------
\* State
\* ------------------------------------------------------------------------

VARIABLES
    environ,              \* the WSGI environ of the latest request (None before)
    classified_url,       \* classify(request_path, ...) of that request
    classified_referrer,  \* classify(HTTP_REFERER, ...) of that request
    urls_to_check,        \* what _get_urls_to_check returned for it
    check_calls,          \* the checks made for it, in order: the arguments of
                          \* check_url, the backend's answer, _check_url's result
    returned,             \* how __call__ ended: "response", "application", "error"
    response,             \* the Response __call__ built, if any
    raised,               \* the exception that left __call__, if any
    application_calls,    \* the environs the wrapped application was called with
    backend_log,          \* every check_url call since construction
    requests              \* the number of requests handled since construction

vars ==
    <<environ, classified_url, classified_referrer, urls_to_check, check_calls,
      returned, response, raised, application_calls, backend_log, requests>>

\* Blocker.__init__: nothing has been handled yet
Init ==
    /\ environ = None
    /\ classified_url = None
    /\ classified_referrer = None
    /\ urls_to_check = None
    /\ check_calls = <<>>
    /\ returned = "idle"
    /\ response = None
    /\ raised = None
    /\ application_calls = <<>>
    /\ backend_log = <<>>
    /\ requests = 0

\* The loop of Blocker.__call__ over ((full_check, False), (partial_check,
\* True)) from its k-th element on; calls are the check_url calls made so far
RECURSIVE ApplyChecks(_, _, _, _)
ApplyChecks(checks, answers, k, calls) ==
    IF k > Len(checks)
    THEN [calls |-> calls, returned |-> "application",
          response |-> None, raised |-> None]
    ELSE LET url_to_check == checks[k][1]
             allow_all == checks[k][2]
         IN  IF url_to_check = None
             THEN ApplyChecks(checks, answers, k + 1, calls)
             ELSE LET hits == _check_url(url_to_check[1].effective_url,
                                         allow_all, answers[k])
                      made == Append(calls,
                                     [url |-> url_to_check[1].effective_url,
                                      allow_all |-> allow_all,
                                      answer |-> answers[k],
                                      hits |-> hits])
                  IN  IF hits.raises # None
                      THEN [calls |-> made, returned |-> "error",
                            response |-> None, raised |-> hits.raises]
                      ELSE IF hits.value = None
                      THEN ApplyChecks(checks, answers, k + 1, made)
                      ELSE LET rendered ==
                                   _render_block_template(hits.value[1],
                                                          url_to_check[1])
                           IN  IF rendered.raises # None
                               THEN [calls |-> made, returned |-> "error",
                                     response |-> None,
                                     raised |-> rendered.raises]
                               ELSE [calls |-> made, returned |-> "response",
                                     response |-> rendered.value,
                                     raised |-> None]

\* The first statements of Blocker.__call__: both classifications and the
\* rule; raises is set where a classify call raises instead
Classified(env) ==
    LET request_path == Some(env.PATH_INFO)
        via_host == env.HTTP_HOST
    IN  IF \/ classify_raises(request_path, via_host, TRUE)
           \/ classify_raises(env.HTTP_REFERER, via_host, FALSE)
        THEN [raises |-> Some("ValueError"), url |-> None, referrer |-> None,
              checks |-> <<None, None, "">>]
        ELSE LET url == classify(request_path, via_host, TRUE)
                 referrer == classify(env.HTTP_REFERER, via_host, FALSE)
             IN  [raises |-> None, url |-> Some(url),
                  referrer |-> Some(referrer),
                  checks |-> _get_urls_to_check(url, referrer)]

\* the entry of backend_log for a call of check_url
Logged(call) ==
    [url |-> call.url, allow_all |-> call.allow_all,
     failed |-> call.answer.kind \in Failures]

\* Blocker.__call__(environ, start_response) for one request.  The backend's
\* answers a1 and a2 are drawn for the checks the rule requests.
__call__(env) ==
    \E c \in {Classified(env)} :
        /\ environ' = Some(env)
        /\ requests' = requests + 1
        /\ classified_url' = c.url
        /\ classified_referrer' = c.referrer
        /\ IF c.raises # None
           THEN /\ urls_to_check' = None
                /\ check_calls' = <<>>
                /\ returned' = "error"
                /\ response' = None
                /\ raised' = c.raises
                /\ application_calls' = <<>>
                /\ UNCHANGED backend_log
           ELSE \E a1 \in (IF c.checks[1] = None THEN {Unasked} ELSE Answers),
                   a2 \in (IF c.checks[2] = None THEN {Unasked} ELSE Answers) :
                    \E done \in {ApplyChecks(<< <<c.checks[1], FALSE>>,
                                                <<c.checks[2], TRUE>> >>,
                                             <<a1, a2>>, 1, <<>>)} :
                        /\ urls_to_check' = Some(c.checks)
                        /\ check_calls' = done.calls
                        /\ returned' = done.returned
                        /\ response' = done.response
                        /\ raised' = done.raised
                        /\ application_calls' =
                              IF done.returned = "application"
                              THEN <<env>> ELSE <<>>
                        /\ backend_log' =
                              backend_log \o [i \in 1..Len(done.calls) |->
                                                 Logged(done.calls[i])]

\* The first request after construction, over every environ of the model.
\* Blocker keeps no state of its own from one request to the next.
Next == requests = 0 /\ \E env \in Environs : __call__(env)

Spec == Init /\ [][Next]_vars

\* A run of up to MaxRequests requests over a few environs that repeat
RepeatEnvirons ==
    [PATH_INFO : {<<"/">>, <<"/", "a">>, <<"/", "a", "a", "_", "/", "a">>},
     HTTP_REFERER : {None, Some(VIA_ORIGIN \o <<"/", "a">>)},
     HTTP_HOST : {Some(VIA_HOST)}]

NextRepeat == requests < MaxRequests /\ \E env \in RepeatEnvirons : __call__(env)

SpecRepeat == Init /\ [][NextRepeat]_vars

\* ------------------------------------------------------------------------
\* Properties
\* ------------------------------------------------------------------------

Handled == classified_url # None

UrlType == classified_url[1].type

ReferrerType == classified_referrer[1].type

PassedThrough ==
    /\ returned = "application"
    /\ response = None
    /\ raised = None
    /\ application_calls = <<environ[1]>>

\* C1: a request whose path classifies as via_landing_page gets
\* (None, None, "landing_page") from _get_urls_to_check whatever its referrer
\* is; check_url is not called and the request goes to the wrapped application.
C1_LandingPageNeverChecked ==
    (Handled /\ UrlType = Some("via_landing_page")) =>
        /\ urls_to_check = Some(<<None, None, "landing_page">>)
        /\ check_calls = <<>>
        /\ PassedThrough

C1_Witness ==
    /\ Handled
    /\ UrlType = Some("via_landing_page")
    /\ ReferrerType = Some("via_sub_resource")
    /\ returned = "application"

\* C2: when the referrer is a via_page or via_sub_resource and the url is not
\* the landing page, _get_urls_to_check returns a partial check on url and no
\* full check; check_url is called exactly once, with url's effective URL and
\* allow_all=True, and never with allow_all=False.
C2_ViaReferrerPartialCheck ==
    (/\ Handled
     /\ ReferrerType \in {Some("via_page"), Some("via_sub_resource")}
     /\ UrlType # Some("via_landing_page")) =>
        /\ urls_to_check[1][1] = None
        /\ urls_to_check[1][2] = classified_url
        /\ Len(check_calls) = 1
        /\ check_calls[1].url = classified_url[1].effective_url
        /\ check_calls[1].allow_all = TRUE
        /\ \A i \in 1..Len(backend_log) : backend_log[i].allow_all = TRUE

C2_Witness ==
    /\ Handled
    /\ ReferrerType = Some("via_page")
    /\ UrlType = Some("via_sub_resource")
    /\ Len(check_calls) = 1
    /\ check_calls[1].url # None
    /\ check_calls[1].allow_all = TRUE

\* C3: when the url is not the landing page and the referrer is neither a
\* via_page nor a via_sub_resource (absent, third party or the Via landing
\* page), _get_urls_to_check returns a full check on url and no partial check;
\* check_url is called exactly once, with url's effective URL and
\* allow_all=False.
C3_OtherwiseFullCheck ==
    (/\ Handled
     /\ UrlType # Some("via_landing_page")
     /\ ReferrerType \notin {Some("via_page"), Some("via_sub_resource")}) =>
        /\ urls_to_check[1][1] = classified_url
        /\ urls_to_check[1][2] = None
        /\ Len(check_calls) = 1
        /\ check_calls[1].url = classified_url[1].effective_url
        /\ check_calls[1].allow_all = FALSE

C3_Witness ==
    /\ Handled
    /\ UrlType = Some("via_page")
    /\ ReferrerType = Some("via_landing_page")
    /\ Len(check_calls) = 1
    /\ check_calls[1].url # None
    /\ check_calls[1].allow_all = FALSE

C5_NeverUncaughtError ==
    returned \in {"idle", "response", "application"} /\ raised = None

\* the check that made __call__ stop, when it returned a block response
LastCall == check_calls[Len(check_calls)]

C7_CachedCheckNotRepeated ==
    \A i, j \in 1..Len(backend_log) :
        (/\ i < j
         /\ backend_log[i].url = backend_log[j].url
         /\ backend_log[i].allow_all = backend_log[j].allow_all)
            => backend_log[i].failed

\* the classifications of the latest request
Classifications ==
    IF Handled THEN {classified_url[1], classified_referrer[1]} ELSE {}

\* C8: resource_type is set if and only if type is via_sub_resource; when set
\* it is the two lowercase letters of the tag in the /<tag>_/<rest> path.
C8_ResourceTypeIffSubResource ==
    \A c \in Classifications :
        /\ c.resource_type # None <=> c.type = Some("via_sub_resource")
        /\ c.resource_type # None =>
              LET tag == c.resource_type[1]
                  path == urlparse(c.raw_url[1]).path
              IN  /\ Len(tag) = 2
                  /\ tag[1] \in LowerCase
                  /\ tag[2] \in LowerCase
                  /\ Slice(path, 1, 5) = <<"/", tag[1], tag[2], "_", "/">>

C8_Witness ==
    /\ Handled
    /\ classified_url[1].resource_type = Some(<<"a", "a">>)
    /\ classified_referrer[1].type = Some("via_page")
    /\ classified_referrer[1].resource_type = None

\* C9: a raw_url classified via_page or via_sub_resource has an effective_url,
\* which carries a scheme and parses with a non-empty host; a raw_url of type
\* 3rd_party, via_landing_page or none has no effective_url.
C9_EffectiveUrlPresentAndAbsolute ==
    \A c \in Classifications :
        IF c.type \in {Some("via_page"), Some("via_sub_resource")}
        THEN /\ c.effective_url # None
             /\ c.parsed[1].scheme # <<>>
             /\ c.parsed[1].netloc # <<>>
        ELSE c.effective_url = None

\* C10: the wrapped application is invoked if and only if no check returned a
\* hit, and then exactly once with the unmodified environ; when a check
\* returns a hit the block response is returned, the application is not
\* invoked and no further check is made; the full check comes before the
\* partial check.
C10_ApplicationIffNoHit ==
    returned # "idle" =>
        /\ application_calls # <<>>
              <=> (\A i \in 1..Len(check_calls) : check_calls[i].answer.kind # "hit")
        /\ application_calls \in {<<>>, <<environ[1]>>}
        /\ \A i \in 1..Len(check_calls) :
              check_calls[i].answer.kind = "hit" =>
                  /\ returned = "response"
                  /\ response # None
                  /\ application_calls = <<>>
                  /\ i = Len(check_calls)
        /\ \A i, j \in 1..Len(check_calls) :
              (i < j) => (~check_calls[i].allow_all /\ check_calls[j].allow_all)

\* C11: every call Blocker makes to check_url carries a present effective URL
\* that is scheme-qualified; for every request path, the empty path and paths
\* with an empty target ("/oe_/") included, either no check is made or the
\* URL passed is a non-absent string with a scheme.
C11_CheckedUrlPresent ==
    \A i \in 1..Len(check_calls) :
        /\ check_calls[i].url # None
        /\ SplitScheme(check_calls[i].url[1]).scheme # <<>>

====
